---- MODULE Spec2Model ----
(***************************************************************************)
(* Model of the einforma "autonomos" scraper: src/main.py and              *)
(* src/scraper.py, two variants of one pipeline                            *)
(*   get_company_ids -> [parse_company(cid) for cid in ids] -> export.     *)
(* The web server is the environment: every response is drawn from a small *)
(* set when the request is answered.  Python's None is the empty sequence  *)
(* <<>> and a present value v is <<v>>; a text is a sequence of tokens, so *)
(* that str.strip is something the model computes.                         *)
(***************************************************************************)
EXTENDS Integers, Sequences, FiniteSets, TLC

VARIABLES
    variant,      \* "main" (src/main.py) or "scraper" (src/scraper.py)
    max_pages,    \* MAX_PAGES / max_pages: <<>> is None, <<n>> the integer n
    pc,           \* position of the run
    page,         \* get_company_ids: page
    ids,          \* get_company_ids: ids (list, duplicates kept)
    company_ids,  \* main: the list get_company_ids returned
    company_ids2, \* the list a second run returns from the same responses
    records,      \* main: records built so far by the comprehension
    files,        \* files written to the working directory
    excel,        \* what the spreadsheet write did: "pending", "ok", ...
    crash,        \* "none", or where an exception left main()
    inflight,     \* requests issued and not yet answered
    \* ---- the server's budget and the observers of the run
    anchorsLeft,  \* anchors the listing can still serve
    nListing,     \* calls of get_with_retry on a listing URL
    emptyAt,      \* index of the first listing page with zero links, 0: none
    stop,         \* what ended pagination: "none", "cap", "empty", "fail"
    found,        \* non-empty ids on the pages fetched successfully
    dupes,        \* an id was met a second time (within or across pages)
    called,       \* calls of parse_company
    fetchOk,      \* per call of parse_company: did its fetch succeed
    lastPage,     \* the detail page served to the last parse_company
    pauses,       \* time.sleep calls since the last request was issued
    lastFetch,    \* how the last fetch ended: "none", "ok", "fail", "empty"
    gap,          \* pauses between the previous request and the last one (-1: first)
    after,        \* lastFetch as it was when the last request was issued
    \* ---- get_with_retry on its own
    script,       \* what the server answers to attempt 1, 2, ...
    resp          \* what get_with_retry did with it

vars == <<variant, max_pages, pc, page, ids, company_ids, company_ids2, records,
          files, excel, crash, inflight, anchorsLeft, nListing, emptyAt, stop,
          found, dupes, called, fetchOk, lastPage, pauses, lastFetch, gap, after,
          script, resp>>

(***************************************************************************)
(* Bounds of the model.                                                    *)
(***************************************************************************)
MaxAnchors == 3   \* anchors the listing serves over all its pages
MaxCap == 2       \* largest configured max_pages

None == <<>>
Some(v) == <<v>>
Range(s) == {s[k] : k \in 1..Len(s)}
NoDup(s) == \A i, j \in 1..Len(s) : s[i] = s[j] => i = j
\* Python truth of an optional integer and of an optional string
TruthyInt(opt) == opt # None /\ opt[1] # 0
TruthyStr(opt) == opt # None /\ opt[1] # ""

Variants == {"main", "scraper"}
Ids == {"A1", "A2", "A3"}
MaxPagesValues == {None} \cup {Some(n) : n \in 0..MaxCap}

(***************************************************************************)
(* create_session / get_with_retry.  An attempt's outcome is the status    *)
(* the server answers (0: no answer, a connection error) and whether the   *)
(* answer carries a Retry-After header.                                    *)
(***************************************************************************)
retries == 3
status_forcelist_no503 == {500, 502, 504}
status_forcelist == {500, 502, 503, 504}
ScriptLen == retries + 2
Out(s, ra) == [status |-> s, retry_after |-> ra]
Outcomes == {Out(s, FALSE) : s \in {0, 200, 404, 429, 500, 502, 503, 504}}
              \cup {Out(429, TRUE)}
Scripts == [1..ScriptLen -> Outcomes]

\* urllib3 Retry.is_retry for a GET: a forced status, or a Retry-After header
\* on 413/429/503 while total is not 0.
is_retry(o, total) ==
    \/ o.status \in status_forcelist
    \/ total # 0 /\ o.retry_after /\ o.status \in {413, 429, 503}

\* Response.raise_for_status
raises_for_status(s) == s >= 400 /\ s < 600

RECURSIVE session_get(_, _, _)
\* session.get through the HTTPAdapter: attempt k with `total` retries left.
session_get(scr, k, total) ==
    LET o == scr[k] IN
    IF o.status = 0 \/ is_retry(o, total)
    THEN IF total - 1 < 0
         THEN [raised |-> TRUE, status |-> o.status, attempts |-> k]
         ELSE session_get(scr, k + 1, total - 1)
    ELSE [raised |-> FALSE, status |-> o.status, attempts |-> k]

get_with_retry(scr) ==
    LET r == session_get(scr, 1, retries) IN
    IF r.raised \/ raises_for_status(r.status)
    THEN [raised |-> TRUE, status |-> r.status, attempts |-> r.attempts]
    ELSE r

Const(o) == [k \in 1..ScriptLen |-> o]
Then(o1, o2) == [k \in 1..ScriptLen |-> IF k = 1 THEN o1 ELSE o2]
\* The answers the pipeline is run against.
SampleScripts ==
    { Const(Out(200, FALSE)), Then(Out(503, FALSE), Out(200, FALSE)),
      Const(Out(404, FALSE)), Const(Out(429, FALSE)), Const(Out(503, FALSE)),
      Const(Out(0, FALSE)) }

(***************************************************************************)
(* get_company_ids.  An anchor of a listing page: whether the variant's    *)
(* selector picks it (the href regex of main.py, the CSS classes of        *)
(* scraper.py) and the values of the id parameter in its href's query.     *)
(***************************************************************************)
Anchor(sel, q) == [sel |-> sel, query |-> q]
Anchors == {Anchor(FALSE, <<>>), Anchor(TRUE, <<>>), Anchor(TRUE, <<"">>)}
             \cup {Anchor(TRUE, <<i>>) : i \in Ids}
ListingPages(n) == UNION {[1..m -> Anchors] : m \in 0..n}

\* soup.find_all('a', href=...) / soup.select(...)
select(anchors) == SelectSeq(anchors, LAMBDA a : a.sel)

\* urllib.parse.parse_qs drops blank values; .get('id', [None])[0]
parse_id(a) ==
    LET vals == SelectSeq(a.query, LAMBDA v : v # "") IN
    IF vals = <<>> THEN None ELSE Some(vals[1])

RECURSIVE collect(_, _)
\* for a in links: ... if cid: ids.append(cid)
collect(acc, links) ==
    IF links = <<>> THEN acc
    ELSE LET cid == parse_id(Head(links)) IN
         collect(IF TruthyStr(cid) THEN Append(acc, cid[1]) ELSE acc, Tail(links))

\* if not links: break
no_links_never(links) == FALSE
no_links(links) == links = <<>>

\* if max_pages and page > max_pages: break
cap_reached_late(mp, p) == TruthyInt(mp) /\ p > mp[1] + 1
cap_reached(mp, p) == TruthyInt(mp) /\ p > mp[1]

Perms(S) ==
    {s \in [1..Cardinality(S) -> S] : \A i, j \in 1..Cardinality(S) : s[i] = s[j] => i = j}
\* list(set(ids)): the distinct elements, in the order the set's hashing gives
\* (str hashes are salted per process).
list_set_keeps_all(l) == {l}
list_set(l) == Perms(Range(l))

\* The ids a listing page shows, read off the page itself.
ShownIds(anchors) ==
    {a.query[k] : a \in {b \in Range(anchors) : b.sel /\ b.query # <<>>},
                  k \in {1}} \ {""}

CapReached ==
    /\ pc = "loop"
    /\ cap_reached(max_pages, page)
    /\ pc' = "return"
    /\ stop' = "cap"
    /\ UNCHANGED <<variant, max_pages, page, ids, company_ids, company_ids2, records,
                   files, excel, crash, inflight, anchorsLeft, nListing, emptyAt,
                   found, dupes, called, fetchOk, lastPage, pauses, lastFetch, gap,
                   after, script, resp>>

\* url = LISTING_URL.format(page=page); get_with_retry(url) is entered
ListingRequest ==
    /\ pc = "loop"
    /\ ~cap_reached(max_pages, page)
    /\ pc' = "listing"
    /\ inflight' = inflight + 1
    /\ nListing' = nListing + 1
    /\ gap' = IF lastFetch = "none" THEN -1 ELSE pauses
    /\ after' = lastFetch
    /\ pauses' = 0
    /\ UNCHANGED <<variant, max_pages, page, ids, company_ids, company_ids2, records,
                   files, excel, crash, anchorsLeft, emptyAt, stop, found, dupes,
                   called, fetchOk, lastPage, lastFetch, script, resp>>

\* the rest of the loop body, from the answer of get_with_retry to time.sleep.
\* A request that raised brought no page.  emptyAt, found and dupes observe
\* the answer itself, whatever the loop then does with it.
ListingResponse ==
    /\ pc = "listing"
    /\ \E scr \in SampleScripts :
       \E anchors \in IF get_with_retry(scr).raised THEN {<<>>}
                      ELSE ListingPages(anchorsLeft) :
         LET r == get_with_retry(scr)
             links == select(anchors)
             new == collect(ids, links)
             shown == IF r.raised THEN {} ELSE ShownIds(anchors)
         IN
         /\ inflight' = inflight - 1
         /\ emptyAt' = IF ~r.raised /\ emptyAt = 0 /\ ~(\E k \in 1..Len(anchors) : anchors[k].sel)
                       THEN page ELSE emptyAt
         /\ found' = found \cup shown
         /\ dupes' = (dupes \/ (~r.raised /\ (shown \cap found # {}
                                              \/ ~NoDup(collect(<<>>, links)))))
         /\ IF r.raised
            THEN /\ pc' = "return"
                 /\ stop' = "fail"
                 /\ lastFetch' = "fail"
                 /\ UNCHANGED <<page, ids, anchorsLeft, pauses>>
            ELSE IF no_links(links)
            THEN /\ pc' = "return"
                 /\ stop' = "empty"
                 /\ lastFetch' = "empty"
                 /\ UNCHANGED <<page, ids, anchorsLeft, pauses>>
            ELSE /\ ids' = new
                 /\ page' = page + 1
                 /\ pauses' = pauses + 1
                 /\ pc' = "loop"
                 /\ lastFetch' = "ok"
                 /\ anchorsLeft' = anchorsLeft - Len(anchors)
                 /\ UNCHANGED stop
    /\ UNCHANGED <<variant, max_pages, company_ids, company_ids2, records, files,
                   excel, crash, nListing, called, fetchOk, lastPage, gap, after,
                   script, resp>>

\* return list(set(ids)): the frame of get_company_ids (ids, page) is gone,
\* and the listing is not asked again.
ReturnIds ==
    /\ pc = "return"
    /\ \E l \in list_set(ids) : company_ids' = l
    /\ ids' = <<>>
    /\ page' = 0
    /\ anchorsLeft' = 0
    /\ pc' = "main"
    /\ UNCHANGED <<variant, max_pages, company_ids2, records, files, excel,
                   crash, inflight, nListing, emptyAt, stop, found,
                   dupes, called, fetchOk, lastPage, pauses, lastFetch, gap, after,
                   script, resp>>

(***************************************************************************)
(* parse_company.  A detail page, per label: what stands at the label.     *)
(* A get_field label is "missing", or present with "no_sibling", with an   *)
(* element as next sibling ("elem_sibling"), or with a "text" node; the    *)
(* address label is "missing", or present with "no_link" after it, or with *)
(* a "link".                                                               *)
(***************************************************************************)
Fields == <<"name", "cif", "duns", "cnae", "legal_form">>
Nominal ==
    [name |-> "text", cif |-> "text", duns |-> "text", cnae |-> "text",
     legal_form |-> "text", address |-> "link"]
DetailPages ==
    { Nominal,
      [Nominal EXCEPT !.address = "missing"],
      [Nominal EXCEPT !.address = "no_link"],
      [Nominal EXCEPT !.name = "missing"],
      [Nominal EXCEPT !.cif = "no_sibling"],
      [Nominal EXCEPT !.cif = "elem_sibling"] }

\* The text node after a label, and the text of the address link.
SiblingText(cid, f) == <<" ", cid, f, " ">>
LinkText(cid) == <<" ", cid, "street", " ">>

RECURSIVE lstrip(_)
lstrip(t) == IF t # <<>> /\ Head(t) = " " THEN lstrip(Tail(t)) ELSE t
RECURSIVE rstrip(_)
rstrip(t) ==
    IF t # <<>> /\ t[Len(t)] = " " THEN rstrip(SubSeq(t, 1, Len(t) - 1)) ELSE t
\* str.strip()
strip(t) == rstrip(lstrip(t))

\* get_field: main.py   tag.next_sibling.strip() if tag and tag.next_sibling else None
\*            scraper.py tag.next_sibling.strip() if tag else None
\* .strip() of None raises AttributeError; .strip of a Tag is a child lookup
\* that gives None, and calling it raises TypeError.
get_field(v, pg, cid, f) ==
    CASE pg[f] = "missing" -> [raised |-> FALSE, value |-> None]
      [] pg[f] = "no_sibling" ->
           IF v = "main" THEN [raised |-> FALSE, value |-> None]
           ELSE [raised |-> TRUE, value |-> None]
      [] pg[f] = "elem_sibling" -> [raised |-> TRUE, value |-> None]
      [] OTHER -> [raised |-> FALSE, value |-> Some(strip(SiblingText(cid, f)))]

\* dom.find_next('a'); a.get_text(strip=True) if a else None
get_address(pg, cid) ==
    IF pg.address = "link" THEN Some(strip(LinkText(cid))) ELSE None

\* The keys of the dict literal, in its order.
data_keys(v) ==
    IF v = "main"
    THEN <<"id", "name", "cif", "duns", "cnae", "legal_form", "address">>
    ELSE <<"id", "name", "cif", "duns", "cnae", "address", "legal_form">>

\* A dict is a sequence of <<key, value>>, in insertion order.
\* except: return {'id': cid}
degenerate(cid) == << <<"id", Some(<<cid>>)>> >>

\* the dict literal and the address lookup, once the page is fetched
parsed(v, cid, pg) ==
    IF \E k \in 1..Len(Fields) : get_field(v, pg, cid, Fields[k]).raised
    THEN [raised |-> TRUE, data |-> <<>>, slept |-> 0]
    ELSE [raised |-> FALSE,
          data |-> [k \in 1..Len(data_keys(v)) |->
                      LET key == data_keys(v)[k] IN
                      <<key, CASE key = "id" -> Some(<<cid>>)
                               [] key = "address" -> get_address(pg, cid)
                               [] OTHER -> get_field(v, pg, cid, key).value>>],
          slept |-> 1]

\* r is what get_with_retry did, pg the page it fetched; slept counts the
\* time.sleep(delay) calls made on the way out.
parse_company_sleeps_always(v, cid, r, pg) ==
    IF r.raised
    THEN [raised |-> FALSE, data |-> degenerate(cid), slept |-> 1]
    ELSE parsed(v, cid, pg)
parse_company(v, cid, r, pg) ==
    IF r.raised
    THEN [raised |-> FALSE, data |-> degenerate(cid), slept |-> 0]
    ELSE parsed(v, cid, pg)

Keys(d) == [k \in 1..Len(d) |-> d[k][1]]
Lookup(d, key) ==
    IF \E k \in 1..Len(d) : d[k][1] = key
    THEN d[CHOOSE k \in 1..Len(d) : d[k][1] = key][2]
    ELSE None

RECURSIVE columns(_, _)
\* pd.DataFrame(records).columns: the keys in order of first appearance
columns(acc, recs) ==
    IF recs = <<>> THEN acc
    ELSE columns(acc \o SelectSeq(Keys(Head(recs)), LAMBDA c : c \notin Range(acc)),
                 Tail(recs))

\* pd.DataFrame(records): one row per record, a missing key is an empty cell
DataFrame(recs) ==
    LET cols == columns(<<>>, recs) IN
    [columns |-> cols,
     rows |-> [i \in 1..Len(recs) |-> [j \in 1..Len(cols) |-> Lookup(recs[i], cols[j])]]]

\* What pd.ExcelWriter(..., engine='xlsxwriter') / df.to_excel can do.
ExcelOutcomes == {"ok", "import_error", "os_error"}

\* main.py: except:   scraper.py: except (ModuleNotFoundError, ImportError)
falls_back_to_csv(v, outcome) ==
    outcome # "ok" /\ (v = "main" \/ outcome = "import_error")

\* parse_company(cid) is entered: get_with_retry(DETAIL_URL.format(id=cid))
DetailRequest ==
    /\ pc = "main"
    /\ Len(records) < Len(company_ids)
    /\ pc' = "detail"
    /\ inflight' = inflight + 1
    /\ called' = called + 1
    /\ gap' = IF lastFetch = "none" THEN -1 ELSE pauses
    /\ after' = lastFetch
    /\ pauses' = 0
    /\ UNCHANGED <<variant, max_pages, page, ids, company_ids, company_ids2, records,
                   files, excel, crash, anchorsLeft, nListing, emptyAt, stop, found,
                   dupes, fetchOk, lastPage, lastFetch, script, resp>>

\* the rest of parse_company, and the comprehension taking its record
DetailResponse ==
    /\ pc = "detail"
    /\ \E scr \in SampleScripts :
       \E pg \in IF get_with_retry(scr).raised THEN {Nominal} ELSE DetailPages :
         LET r == get_with_retry(scr)
             cid == company_ids[Len(records) + 1]
             res == parse_company(variant, cid, r, pg)
         IN
         /\ inflight' = inflight - 1
         /\ fetchOk' = Append(fetchOk, ~r.raised)
         /\ lastPage' = IF r.raised THEN None ELSE Some(pg)
         /\ pauses' = pauses + res.slept
         /\ IF res.raised
            THEN /\ pc' = "crashed"
                 /\ crash' = "parse_company"
                 /\ lastFetch' = "raised"
                 /\ UNCHANGED records
            ELSE /\ pc' = "main"
                 /\ records' = Append(records, res.data)
                 /\ lastFetch' = IF r.raised THEN "fail" ELSE "ok"
                 /\ UNCHANGED crash
    /\ UNCHANGED <<variant, max_pages, page, ids, company_ids, company_ids2, files,
                   excel, anchorsLeft, nListing, emptyAt, stop, found,
                   dupes, called, gap, after, script, resp>>

\* df = pd.DataFrame(records) and the export
Export ==
    /\ pc = "main"
    /\ Len(records) = Len(company_ids)
    /\ \E outcome \in ExcelOutcomes :
         LET df == DataFrame(records) IN
         /\ excel' = outcome
         /\ IF outcome = "ok"
            THEN /\ files' = files \cup {[name |-> "xlsx", table |-> df]}
                 /\ pc' = "done"
                 /\ UNCHANGED crash
            ELSE IF falls_back_to_csv(variant, outcome)
            THEN /\ files' = files \cup {[name |-> "csv", table |-> df]}
                 /\ pc' = "done"
                 /\ UNCHANGED crash
            ELSE /\ pc' = "crashed"
                 /\ crash' = "export"
                 /\ UNCHANGED files
    /\ UNCHANGED <<variant, max_pages, page, ids, company_ids, company_ids2, records,
                   inflight, anchorsLeft, nListing, emptyAt, stop, found, dupes,
                   called, fetchOk, lastPage, pauses, lastFetch, gap, after, script,
                   resp>>

(***************************************************************************)
(* The run of main(): the configuration is read, then the pipeline.        *)
(***************************************************************************)
Init ==
    /\ variant \in Variants
    /\ max_pages \in MaxPagesValues
    /\ pc = "loop"
    /\ page = 1
    /\ ids = <<>>
    /\ company_ids = <<>>
    /\ company_ids2 = <<>>
    /\ records = <<>>
    /\ files = {}
    /\ excel = "pending"
    /\ crash = "none"
    /\ inflight = 0
    /\ anchorsLeft = MaxAnchors
    /\ nListing = 0
    /\ emptyAt = 0
    /\ stop = "none"
    /\ found = {}
    /\ dupes = FALSE
    /\ called = 0
    /\ fetchOk = <<>>
    /\ lastPage = None
    /\ pauses = 0
    /\ lastFetch = "none"
    /\ gap = -1
    /\ after = "none"
    /\ script = <<>>
    /\ resp = None

Next ==
    \/ CapReached
    \/ ListingRequest
    \/ ListingResponse
    \/ ReturnIds
    \/ DetailRequest
    \/ DetailResponse
    \/ Export

Spec == Init /\ [][Next]_vars

(***************************************************************************)
(* get_with_retry against every script of answers.                         *)
(***************************************************************************)
InitRetry ==
    /\ variant \in Variants
    /\ max_pages = None
    /\ pc = "retry"
    /\ page = 1
    /\ ids = <<>>
    /\ company_ids = <<>>
    /\ company_ids2 = <<>>
    /\ records = <<>>
    /\ files = {}
    /\ excel = "pending"
    /\ crash = "none"
    /\ inflight = 0
    /\ anchorsLeft = 0
    /\ nListing = 0
    /\ emptyAt = 0
    /\ stop = "none"
    /\ found = {}
    /\ dupes = FALSE
    /\ called = 0
    /\ fetchOk = <<>>
    /\ lastPage = None
    /\ pauses = 0
    /\ lastFetch = "none"
    /\ gap = -1
    /\ after = "none"
    /\ script \in Scripts
    /\ resp = None

GetWithRetry ==
    /\ pc = "retry"
    /\ resp = None
    /\ resp' = Some(get_with_retry(script))
    /\ UNCHANGED <<variant, max_pages, pc, page, ids, company_ids, company_ids2,
                   records, files, excel, crash, inflight, anchorsLeft, nListing,
                   emptyAt, stop, found, dupes, called, fetchOk, lastPage, pauses,
                   lastFetch, gap, after, script>>

NextRetry == GetWithRetry

SpecRetry == InitRetry /\ [][NextRetry]_vars

(***************************************************************************)
(* Two runs of get_company_ids against the same answers.  Up to the return *)
(* both runs compute the same ids; each then evaluates list(set(ids)) in   *)
(* its own process.                                                        *)
(***************************************************************************)
ReturnIdsTwoRuns ==
    /\ pc = "return"
    /\ \E l \in list_set(ids), l2 \in list_set(ids) :
         /\ company_ids' = l
         /\ company_ids2' = l2
    /\ ids' = <<>>
    /\ page' = 0
    /\ anchorsLeft' = 0
    /\ pc' = "main"
    /\ UNCHANGED <<variant, max_pages, records, files, excel, crash, inflight,
                   nListing, emptyAt, stop, found, dupes, called,
                   fetchOk, lastPage, pauses, lastFetch, gap, after, script, resp>>

\* main() then asks for the details in the order of the list it got:
\* [parse_company(cid) for cid in company_ids].
NextRuns ==
    \/ CapReached
    \/ ListingRequest
    \/ ListingResponse
    \/ ReturnIdsTwoRuns

SpecRuns == Init /\ [][NextRuns]_vars

(***************************************************************************)
(* Properties of the pipeline.                                             *)
(***************************************************************************)
Paginating == pc \in {"loop", "listing", "return"}
Returned == pc \in {"main", "detail", "done", "crashed"}
Ended == pc \in {"done", "crashed"}
SpecColumns == <<"id", "name", "cif", "duns", "cnae", "address", "legal_form">>

\* C1, as stated: for every integer max_pages = N that is configured,
\* get_company_ids issues at most N listing requests.
C1_AtMostNForEveryInteger ==
    max_pages # None => nListing <= max_pages[1]

\* C1, amended: for every positive integer max_pages = N at most N listing
\* requests are issued, the k-th of them for page k.
C1_AtMostNForPositiveN ==
    /\ (max_pages # None /\ max_pages[1] >= 1) => nListing <= max_pages[1]
    /\ pc = "listing" => page = nListing

\* C1 witness: a cap of 2 ended pagination after the second request.
C1_Witness ==
    max_pages = Some(2) /\ stop = "cap" /\ nListing = 2 /\ Returned

\* C2: the first listing page with zero matching links ends pagination: its
\* request is the last listing request; and when page 1 shows A1 and A2 and
\* page 2 shows no link, two requests are made and the result is {A1, A2}.
C2_StopsAtFirstEmptyPage ==
    /\ emptyAt # 0 => (nListing = emptyAt /\ pc \notin {"loop", "listing"})
    /\ (emptyAt = 2 /\ found = {"A1", "A2"} /\ Returned)
          => (nListing = 2 /\ Len(company_ids) = 2
              /\ Range(company_ids) = {"A1", "A2"})

\* C2 witness: the example, with no cap configured.
C2_Witness ==
    /\ max_pages = None /\ emptyAt = 2 /\ found = {"A1", "A2"}
    /\ Returned /\ nListing = 2

C4_FailedFetchGivesIdOnly ==
    /\ \A k \in 1..Len(records) :
          ~fetchOk[k] => records[k] = << <<"id", Some(<<company_ids[k]>>)>> >>
    /\ crash = "parse_company" => fetchOk[Len(fetchOk)]
C4_FailedFetchDoesNotStopMain ==
    /\ C4_FailedFetchGivesIdOnly
    /\ (Ended /\ \E k \in 1..Len(fetchOk) : ~fetchOk[k])
          => called = Len(company_ids)

\* C5: for a detail page fetched successfully parse_company returns a record
\* without raising; a field is null exactly when its label is missing or has
\* no adjacent text (no link, for the address), and keeps its value otherwise.
C5_FieldsAreIndependent ==
    lastPage # None =>
       /\ crash # "parse_company"
       /\ Len(records) = Len(fetchOk)
       /\ LET rec == records[Len(records)]
              cid == company_ids[Len(records)]
              pg == lastPage[1]
          IN /\ \A k \in 1..Len(Fields) :
                   Lookup(rec, Fields[k]) =
                      IF pg[Fields[k]] = "text" THEN Some(<<cid, Fields[k]>>) ELSE None
             /\ Lookup(rec, "address") =
                   IF pg.address = "link" THEN Some(<<cid, "street">>) ELSE None
             /\ Lookup(rec, "id") = Some(<<cid>>)

\* C6: for N >= 1 identifiers and any mix of detail fetches, the exported
\* table has N rows and the columns id, name, cif, duns, cnae, address,
\* legal_form in that order.
C6_TableHasNRowsAndSevenColumns ==
    (pc = "done" /\ Len(company_ids) >= 1) =>
       \A f \in files :
          /\ Len(f.table.rows) = Len(company_ids)
          /\ f.table.columns = SpecColumns

\* C7: the .csv is written only when the spreadsheet engine is unavailable,
\* and then holds the table the .xlsx would have held.
C7_CsvOnlyWhenEngineUnavailable ==
    /\ (\E f \in files : f.name = "csv") => excel = "import_error"
    /\ excel = "import_error" =>
          files = {[name |-> "csv", table |-> DataFrame(records)]}

\* C9, as stated: every fetch, successful or failed, is followed by exactly
\* one pause before the next request is issued.
C9_PauseAfterEveryFetch ==
    gap \in {-1, 1}

\* C9, amended: the next request comes after exactly one pause when the
\* fetch before it succeeded and was processed to the end (a listing page
\* with links, a detail page parsed), and after no pause when that fetch
\* failed or was a listing page without links.
C9_PauseAfterCompletedFetchOnly ==
    gap # -1 => /\ after \in {"ok", "fail", "empty"}
                /\ gap = (IF after = "ok" THEN 1 ELSE 0)

\* C9 witness: the second detail request, issued right after a detail fetch
\* that failed, with no pause in between.
C9_Witness ==
    pc = "detail" /\ called >= 2 /\ after = "fail" /\ gap = 0

\* C10: listing requests all precede detail requests, one request is in
\* flight at most, and a second run on the same answers gets the identifiers,
\* and so requests the details and exports the rows, in the same order.
C10_SequentialAndDeterministic ==
    /\ inflight <= 1
    /\ Paginating => called = 0
    /\ called <= Len(company_ids)
    /\ Returned => company_ids2 = company_ids

(***************************************************************************)
(* get_with_retry.                                                         *)
(***************************************************************************)
Made(k) == resp # None /\ k <= resp[1].attempts

\* C8, as stated: a 429, 500, 502, 503 or 504 answer is retried while
\* retries are left, at most 4 attempts are made, and no response with an
\* error status is returned.
C8_RetriesSpecSet ==
    resp # None =>
       /\ resp[1].attempts <= 4
       /\ \A k \in 1..3 :
             (Made(k) /\ script[k].status \in {429, 500, 502, 503, 504})
                => Made(k + 1)
       /\ ~resp[1].raised => resp[1].status < 400

\* C8, amended: a 500, 502, 503 or 504 answer (or a 429 that carries a
\* Retry-After header, or a connection error) is retried while retries are
\* left; a 429 without Retry-After, like a 404, is not retried and raises at
\* once; at most 4 attempts are made; the call raises exactly when its last
\* attempt got an error, and returns only a response without error status.
C8_RetriesForcelistOnly ==
    resp # None =>
       /\ resp[1].attempts <= 4
       /\ \A k \in 1..3 :
             (Made(k) /\ (script[k].status \in {0, 500, 502, 503, 504}
                          \/ script[k] = Out(429, TRUE)))
                => Made(k + 1)
       /\ \A k \in 1..4 :
             (Made(k) /\ script[k] \in {Out(429, FALSE), Out(404, FALSE)})
                => (resp[1].attempts = k /\ resp[1].raised)
       /\ resp[1].raised <=> script[resp[1].attempts].status # 200
       /\ ~resp[1].raised => resp[1].status = 200

\* C8 witness: three transient answers, then a good one: 4 attempts, returned.
C8_Witness ==
    /\ resp # None /\ ~resp[1].raised /\ resp[1].attempts = 4
    /\ script[1].status = 503 /\ script[2].status = 500 /\ script[3].status = 502

====
